---- MODULE Spec2Model ----
(***************************************************************************)
(* A model of src/telegram2discord/setup.ts: the helper clearOldMessages   *)
(* and the function setup(), which wires a Telegraf bot to the bridge.     *)
(*                                                                         *)
(* The JavaScript run-to-completion discipline is modelled explicitly: a   *)
(* promise reaction (a .then callback) that has become runnable is a       *)
(* microtask and runs before any further I/O completion, timer or emitted  *)
(* event (a macrotask) is delivered.                                       *)
(***************************************************************************)
EXTENDS Integers, Sequences, FiniteSets, TLC

VARIABLES
    skipOldMessages,  \* settings.telegram.skipOldMessages
    getMe,            \* state of the promise tgBot.telegram.getMe()
    sleepTimer,       \* state of sleep(1000): "none", "pending", "fired"
    drain,            \* state of clearOldMessages(tgBot): "none", "fetching", "done", "failed"
    fetchOffsets,     \* offsets of the getUpdates calls issued, in order
    batchHist,        \* [len, last] of every batch getUpdates returned, in order
    chain,            \* how far the .then chain of tgBot.ready has run
    ready,            \* state of the promise tgBot.ready
    pollState,        \* state of the tgBot.startPolling() call
    tgContext,        \* tgBot.context.TediCross
    stages,           \* the middleware installed on tgBot, in installation order
    catchInstalled,   \* whether tgBot.catch has registered the error handler
    apiCalls,         \* registration calls issued on tgBot.telegram, in order
    cmdTask,          \* state of the detached setMyCommands(...).then(...) task
    rightsGroup,      \* state of setMyDefaultAdministratorRights({forChannels: false})
    rightsChannel,    \* state of setMyDefaultAdministratorRights({forChannels: true})
    logged,           \* what the logger collaborator has received
    unhandled,        \* promise rejections no handler was attached to
    settingsTable,    \* the BridgeMap the settings collaborator last announced
    emitThrew,        \* whether a "bridgeUpdate" listener call has thrown
    messageMap,       \* the MessageMap: (bridge, Telegram message id) -> Discord message id
    lastUpdate        \* what the pipeline did with the update it handled last

startupVars == <<skipOldMessages, getMe, sleepTimer, drain, fetchOffsets, batchHist,
                 chain, ready, pollState, tgContext, stages, catchInstalled, apiCalls,
                 cmdTask, rightsGroup, rightsChannel, logged, unhandled,
                 settingsTable, emitThrew>>

pipelineVars == <<messageMap, lastUpdate>>

vars == <<startupVars, pipelineVars>>

----------------------------------------------------------------------------
(* Bounds of the model *)

\* getUpdates calls after which the source platform's backlog is exhausted
MaxFetches == 3
\* largest distance between a requested offset and the first update_id returned
MaxGap == 1

----------------------------------------------------------------------------
(* clearOldMessages *)

timeout == 0
limit == 100
FirstOffset == -1

\* R.isEmpty applied to a batch
isEmpty(batch) == Len(batch) = 0

\* R.last applied to a non-empty batch
last(batch) == batch[Len(batch)]

\* Variant of NewOffset that leaves out R.add(1)
NewOffsetWithoutAdd(batch) == last(batch).update_id

\* R.compose(R.add(1), R.prop("update_id"), R.last)
NewOffset(batch) == last(batch).update_id + 1

\* A batch of n updates with consecutive ids from start on
BatchFrom(start, n) == [i \in 1..n |-> [update_id |-> start + i - 1]]

\* The batches tgBot.telegram.getUpdates(timeout, limit, offset, []) may resolve to:
\* at most `limit` updates; nothing once the backlog is exhausted
getUpdates(tmo, lim, offset) ==
    IF Len(fetchOffsets) >= MaxFetches
    THEN {<< >>}
    ELSE {BatchFrom((IF offset < 0 THEN 0 ELSE offset) + g, n) :
            g \in 0..MaxGap, n \in {0, 1, lim}}

----------------------------------------------------------------------------
(* Promises *)

PromiseStates == {"pending", "fulfilled", "rejected"}

\* The backlog alternative of lines 92-94, chosen by settings.telegram.skipOldMessages
BacklogStepAlwaysClears(skip) == "clearOldMessages"

BacklogStep(skip) == IF skip THEN "clearOldMessages" ELSE "sleep"

\* A backlog promise that swallows a failed fetch
BacklogPromiseIgnoringFailure ==
    IF BacklogStep(skipOldMessages) = "clearOldMessages"
    THEN IF drain \in {"done", "failed"} THEN "fulfilled" ELSE "pending"
    ELSE IF sleepTimer = "fired" THEN "fulfilled" ELSE "pending"

\* The backlog alternative of line 94 as a promise
BacklogPromise ==
    IF BacklogStep(skipOldMessages) = "clearOldMessages"
    THEN CASE drain = "done" -> "fulfilled"
           [] drain = "failed" -> "rejected"
           [] OTHER -> "pending"
    ELSE IF sleepTimer = "fired" THEN "fulfilled" ELSE "pending"

\* Variant of PromiseAll that waits for the first promise only
PromiseFirstOnly(a, b) == a

\* Variant of PromiseAll that behaves as Promise.allSettled: fulfilled once both settled
PromiseAllSettled(a, b) ==
    IF a = "pending" \/ b = "pending" THEN "pending" ELSE "fulfilled"

\* Promise.all([a, b]): rejected as soon as one is, fulfilled once both are
PromiseAll(a, b) ==
    IF a = "rejected" \/ b = "rejected" THEN "rejected"
    ELSE IF a = "fulfilled" /\ b = "fulfilled" THEN "fulfilled"
    ELSE "pending"

AllState == PromiseAll(getMe, BacklogPromise)

\* Variant of InstallResult in which the callback returns the setMyCommands chain
InstallReturnsCommandTask == "cmdTask"

\* What the first .then callback returns: it has no return statement
InstallResult == "undefined"

\* The promise the first .then produces is settled once its callback's result is
InstallSettled ==
    \/ InstallResult = "undefined"
    \/ InstallResult = "cmdTask" /\ cmdTask \notin {"none", "pending"}

\* A promise reaction is runnable: it runs before any macrotask
Microtask ==
    \/ chain = "waiting" /\ AllState = "fulfilled"
    \/ chain = "waiting" /\ AllState = "rejected" /\ ready = "pending"
    \/ chain = "installed" /\ InstallSettled

----------------------------------------------------------------------------
(* setup *)

NoContext == [set |-> FALSE]

myCommands == <<"chatinfo", "threadinfo">>

Stage(name, on) == [name |-> name, on |-> on]

AllUpdates == {"any"}

\* Lines 173-175: the command handlers and the channel variant of chatinfo
CommandStages ==
    << Stage("chatinfo", {"cmd_chatinfo"}),
       Stage("threadinfo", {"cmd_threadinfo"}),
       Stage("channelChatInfo", AllUpdates) >>

\* Lines 176-180
HeadStages ==
    << Stage("addTediCrossObj", AllUpdates),
       Stage("addMessageObj", AllUpdates),
       Stage("addMessageId", AllUpdates),
       Stage("addBridgesToContext", AllUpdates),
       Stage("informThisIsPrivateBot", AllUpdates) >>

\* Line 181
DirectionStage == << Stage("removeD2TBridges", AllUpdates) >>

\* Lines 184-187
MembershipStages ==
    << Stage("removeBridgesIgnoringJoinMessages", {"new_chat_members"}),
       Stage("removeBridgesIgnoringLeaveMessages", {"left_chat_member"}),
       Stage("newChatMembers", {"new_chat_members"}),
       Stage("leftChatMember", {"left_chat_member"}) >>

\* Lines 188-194
EnrichmentStages ==
    << Stage("addFromObj", AllUpdates),
       Stage("addReplyObj", AllUpdates),
       Stage("addForwardFrom", AllUpdates),
       Stage("addTextObj", AllUpdates),
       Stage("addFileObj", AllUpdates),
       Stage("addFileLink", AllUpdates),
       Stage("addPreparedObj", AllUpdates) >>

\* Line 197
EditStage == << Stage("handleEdits", {"edited_message", "edited_channel_post"}) >>

\* Line 198
RelayStage == << Stage("relayMessage", AllUpdates) >>

\* Variant of Stages that installs relayMessage before the enrichment stages
StagesRelayBeforeEnrichment ==
    CommandStages \o HeadStages \o DirectionStage \o MembershipStages
        \o RelayStage \o EnrichmentStages \o EditStage

\* Variant of Stages that installs removeD2TBridges after the membership stages
StagesDirectionAfterMembership ==
    CommandStages \o HeadStages \o MembershipStages \o DirectionStage
        \o EnrichmentStages \o EditStage \o RelayStage

\* Variant of Stages that installs relayMessage before handleEdits
\* Stage lists in which the membership stages come after the enrichment stages, and
\* in which the command handlers come after the general stages
StagesMembershipAfterEnrichment ==
    CommandStages \o HeadStages \o DirectionStage \o EnrichmentStages \o
    MembershipStages \o EditStage \o RelayStage

StagesCommandsLast ==
    HeadStages \o DirectionStage \o MembershipStages \o EnrichmentStages \o
    EditStage \o RelayStage \o CommandStages

StagesRelayBeforeEdits ==
    CommandStages \o HeadStages \o DirectionStage \o MembershipStages
        \o EnrichmentStages \o RelayStage \o EditStage

\* tgBot.command / tgBot.use / tgBot.on calls of setup, in order
Stages ==
    CommandStages \o HeadStages \o DirectionStage \o MembershipStages
        \o EnrichmentStages \o EditStage \o RelayStage

----------------------------------------------------------------------------
(* Completions of the two promises tgBot.ready waits for *)

\* tgBot.telegram.getMe() resolves with the bot's identity
GetMeResolves ==
    /\ ~Microtask
    /\ getMe = "pending"
    /\ getMe' = "fulfilled"
    /\ UNCHANGED pipelineVars
    /\ UNCHANGED <<skipOldMessages, sleepTimer, drain, fetchOffsets, batchHist, chain,
                   ready, pollState, tgContext, stages, catchInstalled, apiCalls,
                   cmdTask, rightsGroup, rightsChannel, logged, unhandled,
                   settingsTable, emitThrew>>

\* A rejection of getMe that also abandons the draining
GetMeRejectsAndCancels ==
    /\ ~Microtask
    /\ getMe = "pending"
    /\ getMe' = "rejected"
    /\ drain' = IF drain = "fetching" THEN "cancelled" ELSE drain
    /\ UNCHANGED pipelineVars
    /\ UNCHANGED <<skipOldMessages, sleepTimer, fetchOffsets, batchHist, chain,
                   ready, pollState, tgContext, stages, catchInstalled, apiCalls,
                   cmdTask, rightsGroup, rightsChannel, logged, unhandled,
                   settingsTable, emitThrew>>

\* tgBot.telegram.getMe() fails
GetMeRejects ==
    /\ ~Microtask
    /\ getMe = "pending"
    /\ getMe' = "rejected"
    /\ UNCHANGED pipelineVars
    /\ UNCHANGED <<skipOldMessages, sleepTimer, drain, fetchOffsets, batchHist, chain,
                   ready, pollState, tgContext, stages, catchInstalled, apiCalls,
                   cmdTask, rightsGroup, rightsChannel, logged, unhandled,
                   settingsTable, emitThrew>>

\* sleep(1000) elapses
SleepElapses ==
    /\ ~Microtask
    /\ sleepTimer = "pending"
    /\ sleepTimer' = "fired"
    /\ UNCHANGED pipelineVars
    /\ UNCHANGED <<skipOldMessages, getMe, drain, fetchOffsets, batchHist, chain,
                   ready, pollState, tgContext, stages, catchInstalled, apiCalls,
                   cmdTask, rightsGroup, rightsChannel, logged, unhandled,
                   settingsTable, emitThrew>>

\* The then-callback of clearOldMessages on a batch: R.ifElse(R.isEmpty, ...)
ClearOldMessagesStopsOnShortBatch(batch) ==
    /\ batchHist' = Append(batchHist, [len |-> Len(batch),
                                       last |-> IF isEmpty(batch) THEN FirstOffset
                                                ELSE last(batch).update_id])
    /\ IF Len(batch) < limit
       THEN /\ drain' = "done"
            /\ fetchOffsets' = fetchOffsets
       ELSE /\ drain' = "fetching"
            /\ fetchOffsets' = Append(fetchOffsets, NewOffset(batch))

\* The arguments of the getUpdates call of line 38
FetchRequest(offset) ==
    [timeout |-> timeout, limit |-> limit, offset |-> offset, allowedUpdates |-> << >>]

ClearOldMessagesThen(batch) ==
    /\ batchHist' = Append(batchHist, [len |-> Len(batch),
                                       last |-> IF isEmpty(batch) THEN FirstOffset
                                                ELSE last(batch).update_id])
    /\ IF isEmpty(batch)
       THEN /\ drain' = "done"
            /\ fetchOffsets' = fetchOffsets
       ELSE /\ drain' = "fetching"
            /\ fetchOffsets' = Append(fetchOffsets, NewOffset(batch))

\* A getUpdates call of clearOldMessages resolves with a batch
GetUpdatesResolves ==
    /\ ~Microtask
    /\ drain = "fetching"
    /\ \E req \in {FetchRequest(fetchOffsets[Len(fetchOffsets)])} :
       \E batch \in getUpdates(req.timeout, req.limit, req.offset) :
          ClearOldMessagesThen(batch)
    /\ UNCHANGED pipelineVars
    /\ UNCHANGED <<skipOldMessages, getMe, sleepTimer, chain,
                   ready, pollState, tgContext, stages, catchInstalled, apiCalls,
                   cmdTask, rightsGroup, rightsChannel, logged, unhandled,
                   settingsTable, emitThrew>>

\* A getUpdates call of clearOldMessages fails: the rejection passes through both .then
GetUpdatesRejects ==
    /\ ~Microtask
    /\ drain = "fetching"
    /\ drain' = "failed"
    /\ UNCHANGED pipelineVars
    /\ UNCHANGED <<skipOldMessages, getMe, sleepTimer, fetchOffsets, batchHist, chain,
                   ready, pollState, tgContext, stages, catchInstalled, apiCalls,
                   cmdTask, rightsGroup, rightsChannel, logged, unhandled,
                   settingsTable, emitThrew>>

----------------------------------------------------------------------------
(* The .then chain of tgBot.ready *)

\* A context object that lacks the group id map
ContextWithoutGroupIdMap ==
    [set |-> TRUE, me |-> "me", bridgeMap |-> "table1", dcBot |-> "dcBot",
     settings |-> "settings", messageMap |-> "messageMap", logger |-> "logger",
     antiInfoSpamSet |-> "antiInfoSpamSet"]

\* The object assigned to tgBot.context.TediCross, lines 161-170
InstalledContext ==
    [set |-> TRUE, me |-> "me", bridgeMap |-> "table1", dcBot |-> "dcBot",
     settings |-> "settings", messageMap |-> "messageMap", logger |-> "logger",
     antiInfoSpamSet |-> "antiInfoSpamSet", groupIdMap |-> "groupIdMap"]

\* Registration calls in which the channel template is set for groups a second time
RegistrationCallsGroupsTwice ==
    << [call |-> "setMyCommands", arg |-> myCommands],
       [call |-> "setMyDefaultAdministratorRights", arg |-> FALSE],
       [call |-> "setMyDefaultAdministratorRights", arg |-> FALSE] >>

\* The registration calls of lines 112, 141 and 149
RegistrationCalls ==
    << [call |-> "setMyCommands", arg |-> myCommands],
       [call |-> "setMyDefaultAdministratorRights", arg |-> FALSE],
       [call |-> "setMyDefaultAdministratorRights", arg |-> TRUE] >>

\* Promise.all rejected: both .then callbacks are skipped and tgBot.ready rejects
ReadyRejects ==
    /\ chain = "waiting"
    /\ AllState = "rejected"
    /\ ready = "pending"
    /\ ready' = "rejected"
    /\ UNCHANGED pipelineVars
    /\ UNCHANGED <<skipOldMessages, getMe, sleepTimer, drain, fetchOffsets, batchHist,
                   chain, pollState, tgContext, stages, catchInstalled, apiCalls,
                   cmdTask, rightsGroup, rightsChannel, logged, unhandled,
                   settingsTable, emitThrew>>

\* The first .then callback, lines 96-208
Install ==
    /\ chain = "waiting"
    /\ AllState = "fulfilled"
    /\ logged' = logged \cup {[level |-> "info", msg |-> "Telegram: me"]}
    /\ apiCalls' = apiCalls \o RegistrationCalls
    /\ cmdTask' = "pending"
    /\ rightsGroup' = "pending"
    /\ rightsChannel' = "pending"
    /\ tgContext' = InstalledContext
    /\ stages' = Stages
    /\ catchInstalled' = TRUE
    /\ chain' = "installed"
    /\ UNCHANGED pipelineVars
    /\ UNCHANGED <<skipOldMessages, getMe, sleepTimer, drain, fetchOffsets, batchHist,
                   ready, pollState, unhandled, settingsTable, emitThrew>>

\* What tgBot.startPolling() hands back: a plain value, or the promise of the
\* retrieval loop, which settles only when the process stops
PollResults == {"value", "promise"}

\* The second .then callback, line 211; tgBot.ready adopts what it returns
StartPolling ==
    /\ chain = "installed"
    /\ InstallSettled
    /\ IF InstallResult = "cmdTask" /\ cmdTask = "failed"
       THEN /\ chain' = "skipped"
            /\ ready' = "rejected"
            /\ pollState' = pollState
       ELSE /\ chain' = "polling"
            /\ \E r \in PollResults :
                 /\ pollState' = IF r = "value" THEN "background" ELSE "running"
                 /\ ready' = IF r = "value" THEN "fulfilled" ELSE ready
    /\ UNCHANGED pipelineVars
    /\ UNCHANGED <<skipOldMessages, getMe, sleepTimer, drain, fetchOffsets, batchHist,
                   tgContext, stages, catchInstalled, apiCalls,
                   cmdTask, rightsGroup, rightsChannel, logged, unhandled,
                   settingsTable, emitThrew>>

\* The process stops: the retrieval loop ends and its promise resolves
PollingStops ==
    /\ ~Microtask
    /\ pollState \in {"running", "background"}
    /\ pollState' = "stopped"
    /\ ready' = IF pollState = "running" THEN "fulfilled" ELSE ready
    /\ UNCHANGED pipelineVars
    /\ UNCHANGED <<skipOldMessages, getMe, sleepTimer, drain, fetchOffsets, batchHist,
                   chain, tgContext, stages, catchInstalled, apiCalls,
                   cmdTask, rightsGroup, rightsChannel, logged, unhandled,
                   settingsTable, emitThrew>>

----------------------------------------------------------------------------
(* The detached startup tasks *)

\* What getMyCommands may resolve to
CommandLists == { << >>, <<"chatinfo">>, <<"chatinfo", "other">>, myCommands }

\* setMyCommands resolves: its .then callback schedules the 5000 ms check
SetMyCommandsResolves ==
    /\ ~Microtask
    /\ cmdTask = "pending"
    /\ cmdTask' = "timer"
    /\ UNCHANGED pipelineVars
    /\ UNCHANGED <<skipOldMessages, getMe, sleepTimer, drain, fetchOffsets, batchHist,
                   chain, ready, pollState, tgContext, stages, catchInstalled, apiCalls,
                   rightsGroup, rightsChannel, logged, unhandled,
                   settingsTable, emitThrew>>

\* setMyCommands fails: the promise .then returns has no rejection handler
SetMyCommandsRejects ==
    /\ ~Microtask
    /\ cmdTask = "pending"
    /\ cmdTask' = "failed"
    /\ unhandled' = unhandled \cup {"setMyCommands"}
    /\ UNCHANGED pipelineVars
    /\ UNCHANGED <<skipOldMessages, getMe, sleepTimer, drain, fetchOffsets, batchHist,
                   chain, ready, pollState, tgContext, stages, catchInstalled, apiCalls,
                   rightsGroup, rightsChannel, logged,
                   settingsTable, emitThrew>>

\* The setTimeout callback of line 114 runs and calls getMyCommands
VerifyTimerFires ==
    /\ ~Microtask
    /\ cmdTask = "timer"
    /\ cmdTask' = "verifying"
    /\ apiCalls' = Append(apiCalls, [call |-> "getMyCommands", arg |-> << >>])
    /\ UNCHANGED pipelineVars
    /\ UNCHANGED <<skipOldMessages, getMe, sleepTimer, drain, fetchOffsets, batchHist,
                   chain, ready, pollState, tgContext, stages, catchInstalled,
                   rightsGroup, rightsChannel, logged, unhandled,
                   settingsTable, emitThrew>>

\* getMyCommands resolves: lines 116-119
GetMyCommandsResolves ==
    /\ ~Microtask
    /\ cmdTask = "verifying"
    /\ \E commands \in CommandLists :
         /\ logged' = logged \cup {[level |-> "info", msg |-> "Telegram commands:",
                                    commands |-> commands]}
         /\ IF Len(commands) < 2
            THEN /\ cmdTask' = "thrown"
                 /\ unhandled' = unhandled \cup {"Telegram: Expected 2 commands"}
            ELSE /\ cmdTask' = "checked"
                 /\ unhandled' = unhandled
    /\ UNCHANGED pipelineVars
    /\ UNCHANGED <<skipOldMessages, getMe, sleepTimer, drain, fetchOffsets, batchHist,
                   chain, ready, pollState, tgContext, stages, catchInstalled, apiCalls,
                   rightsGroup, rightsChannel,
                   settingsTable, emitThrew>>

\* getMyCommands fails: again no rejection handler
GetMyCommandsRejects ==
    /\ ~Microtask
    /\ cmdTask = "verifying"
    /\ cmdTask' = "checkFailed"
    /\ unhandled' = unhandled \cup {"getMyCommands"}
    /\ UNCHANGED pipelineVars
    /\ UNCHANGED <<skipOldMessages, getMe, sleepTimer, drain, fetchOffsets, batchHist,
                   chain, ready, pollState, tgContext, stages, catchInstalled, apiCalls,
                   rightsGroup, rightsChannel, logged,
                   settingsTable, emitThrew>>

\* A setMyDefaultAdministratorRights call settles; .then() attaches no handler
RightsSettle ==
    /\ ~Microtask
    /\ \E forChannels \in BOOLEAN, ok \in BOOLEAN :
         /\ (IF forChannels THEN rightsChannel ELSE rightsGroup) = "pending"
         /\ rightsChannel' = IF forChannels
                             THEN (IF ok THEN "ok" ELSE "failed") ELSE rightsChannel
         /\ rightsGroup' = IF forChannels
                           THEN rightsGroup ELSE (IF ok THEN "ok" ELSE "failed")
         /\ unhandled' = IF ok THEN unhandled
                         ELSE unhandled \cup {IF forChannels
                                              THEN "setMyDefaultAdministratorRights(channels)"
                                              ELSE "setMyDefaultAdministratorRights(groups)"}
    /\ UNCHANGED pipelineVars
    /\ UNCHANGED <<skipOldMessages, getMe, sleepTimer, drain, fetchOffsets, batchHist,
                   chain, ready, pollState, tgContext, stages, catchInstalled, apiCalls,
                   cmdTask, logged, settingsTable, emitThrew>>

----------------------------------------------------------------------------
(* The "bridgeUpdate" listener, lines 84-87 *)

Tables == {"table1", "table2"}

\* A listener that builds a new context around the new table and empties the stage list
BridgeUpdateRebuildsContext ==
    /\ ~Microtask
    /\ \E newBridgeMap \in Tables \ {settingsTable} :
         /\ settingsTable' = newBridgeMap
         /\ IF tgContext.set
            THEN /\ tgContext' = [set |-> TRUE, bridgeMap |-> newBridgeMap]
                 /\ emitThrew' = emitThrew
            ELSE /\ tgContext' = tgContext
                 /\ emitThrew' = TRUE
    /\ UNCHANGED pipelineVars
    /\ UNCHANGED <<skipOldMessages, getMe, sleepTimer, drain, fetchOffsets, batchHist,
                   chain, ready, pollState, stages, catchInstalled, apiCalls,
                   cmdTask, rightsGroup, rightsChannel, logged, unhandled>>

\* settings emits "bridgeUpdate": the listener assigns into tgBot.context.TediCross,
\* which is undefined until Install has run, so the assignment throws a TypeError
BridgeUpdate ==
    /\ ~Microtask
    /\ \E newBridgeMap \in Tables \ {settingsTable} :
         /\ settingsTable' = newBridgeMap
         /\ IF tgContext.set
            THEN /\ tgContext' = [tgContext EXCEPT !.bridgeMap = newBridgeMap]
                 /\ emitThrew' = emitThrew
            ELSE /\ tgContext' = tgContext
                 /\ emitThrew' = TRUE
    /\ UNCHANGED pipelineVars
    /\ UNCHANGED <<skipOldMessages, getMe, sleepTimer, drain, fetchOffsets, batchHist,
                   chain, ready, pollState, stages, catchInstalled, apiCalls,
                   cmdTask, rightsGroup, rightsChannel, logged, unhandled>>

----------------------------------------------------------------------------
(* The bridge tables: the bridgeMap handed to setup and the one a reload announces *)

Bridge(name, tgChat, dcChannel, direction, ignoreJoin, ignoreLeave) ==
    [name |-> name, tgChat |-> tgChat, dcChannel |-> dcChannel, direction |-> direction,
     ignoreJoin |-> ignoreJoin, ignoreLeave |-> ignoreLeave]

BridgeMap(table) ==
    IF table = "table1"
    THEN << Bridge("b1", 111, 221, "both", FALSE, FALSE),
            Bridge("b2", 111, 222, "d2t", FALSE, FALSE) >>
    ELSE << Bridge("b1", 111, 221, "both", TRUE, FALSE),
            Bridge("b3", 111, 223, "t2d", FALSE, TRUE),
            Bridge("b2", 111, 222, "d2t", FALSE, FALSE) >>

BridgeNames == {"b1", "b2", "b3"}

\* Telegram chats updates come from: one bridged, one not
Chats == {111, 555}

\* BridgeTable.resolve by source chat, in configuration order
fromTelegramChatId(table, chat) ==
    SelectSeq(BridgeMap(table), LAMBDA b : b.tgChat = chat)

----------------------------------------------------------------------------
(* Updates and the per-update context *)

\* largest Telegram message id an update carries
MaxMsgId == 1

MsgIds == 1..MaxMsgId

\* The id Discord gives the message a bridge posts for a Telegram message: ids differ
\* between channels and between messages
PostedId(bridge, src) ==
    900 + 10 * src + (CASE bridge = "b1" -> 1 [] bridge = "b2" -> 2 [] OTHER -> 3)

NotFound == 0

UpdateTypes == {"message", "channel_post", "edited_message", "edited_channel_post",
                "new_chat_members", "left_chat_member",
                "cmd_chatinfo", "cmd_threadinfo", "channel_chatinfo"}

Updates == [type : UpdateTypes, chat : Chats, id : MsgIds]

MapKeys == BridgeNames \X MsgIds

EmptyMessageMap == [k \in MapKeys |-> NotFound]

NoUpdate == [handled |-> FALSE]

Range(seq) == {seq[i] : i \in 1..Len(seq)}

\* The context a new update starts with: Telegraf copies tgBot.context onto it
NewContext(update, failing, thrower) ==
    [update |-> update, TediCross |-> tgContext, trace |-> << >>, premature |-> {},
     bridges |-> << >>, table |-> "none", calls |-> << >>, mm |-> messageMap,
     failing |-> failing, thrower |-> thrower, threw |-> FALSE, next |-> TRUE]

\* The stages whose result a stage works on
Needs(name) ==
    CASE name = "addMessageObj" -> {"addTediCrossObj"}
      [] name = "addMessageId" -> {"addMessageObj"}
      [] name = "addBridgesToContext" -> {"addMessageObj"}
      [] name = "informThisIsPrivateBot" -> {"addBridgesToContext"}
      [] name = "removeD2TBridges" -> {"addBridgesToContext"}
      [] name = "removeBridgesIgnoringJoinMessages" -> {"addBridgesToContext"}
      [] name = "removeBridgesIgnoringLeaveMessages" -> {"addBridgesToContext"}
      [] name = "newChatMembers" -> {"addMessageObj", "addBridgesToContext"}
      [] name = "leftChatMember" -> {"addMessageObj", "addBridgesToContext"}
      [] name = "addFromObj" -> {"addMessageObj"}
      [] name = "addReplyObj" -> {"addMessageObj", "addFromObj"}
      [] name = "addForwardFrom" -> {"addMessageObj", "addReplyObj"}
      [] name = "addTextObj" -> {"addMessageObj", "addForwardFrom"}
      [] name = "addFileObj" -> {"addMessageObj", "addTextObj"}
      [] name = "addFileLink" -> {"addFileObj"}
      [] name = "addPreparedObj" -> {"addBridgesToContext", "addFromObj", "addReplyObj",
                                     "addForwardFrom", "addTextObj", "addFileObj",
                                     "addFileLink"}
      [] name = "handleEdits" -> {"addMessageId", "addBridgesToContext"}
      [] name = "relayMessage" -> {"addMessageId", "addPreparedObj"}
      [] OTHER -> {}

\* A stage starts: it joins the trace, and is premature if a stage it needs has not run
Enter(name, ctx) ==
    [ctx EXCEPT !.trace = Append(@, name),
                !.premature = IF Needs(name) \subseteq Range(ctx.trace)
                              THEN @ ELSE @ \cup {name}]

Stop(ctx) == [ctx EXCEPT !.next = FALSE]

\* A stage raises an error instead of doing its work: no later stage runs
Throw(ctx) == [ctx EXCEPT !.next = FALSE, !.threw = TRUE]

----------------------------------------------------------------------------
(* The stages *)

\* The administrative commands answer in the chat and end the update
chatinfo(ctx) ==
    Stop([ctx EXCEPT !.calls = Append(@, [kind |-> "reply", chat |-> ctx.update.chat])])

\* The channel variant of chatinfo: other updates pass through
channelChatInfo(ctx) ==
    IF ctx.update.type = "channel_chatinfo" THEN chatinfo(ctx) ELSE ctx

\* Resolve the candidate bridges against the table the context refers to now
addBridgesToContext(ctx) ==
    LET found == fromTelegramChatId(ctx.TediCross.bridgeMap, ctx.update.chat)
        c == [ctx EXCEPT !.bridges = found, !.table = ctx.TediCross.bridgeMap]
    IN  IF found = << >> THEN Stop(c) ELSE c

\* A chat without bridges gets the explanatory reply and is never relayed
informThisIsPrivateBot(ctx) ==
    IF ctx.bridges = << >>
    THEN Stop([ctx EXCEPT !.calls = Append(@, [kind |-> "reply", chat |-> ctx.update.chat])])
    ELSE ctx

removeD2TBridges(ctx) ==
    [ctx EXCEPT !.bridges = SelectSeq(@, LAMBDA b : b.direction # "d2t")]

removeBridgesIgnoringJoinMessages(ctx) ==
    [ctx EXCEPT !.bridges = SelectSeq(@, LAMBDA b : ~b.ignoreJoin)]

removeBridgesIgnoringLeaveMessages(ctx) ==
    [ctx EXCEPT !.bridges = SelectSeq(@, LAMBDA b : ~b.ignoreLeave)]

\* One delivery attempt per remaining bridge
Deliveries(kind, ctx) ==
    [i \in 1..Len(ctx.bridges) |->
        [kind |-> kind, bridge |-> ctx.bridges[i].name,
         channel |-> ctx.bridges[i].dcChannel, src |-> ctx.update.id]]

\* The membership notice goes to every remaining bridge and ends the update
newChatMembers(ctx) == Stop([ctx EXCEPT !.calls = @ \o Deliveries("notice", ctx)])

leftChatMember(ctx) == Stop([ctx EXCEPT !.calls = @ \o Deliveries("notice", ctx)])

\* Edit what an earlier relay recorded, per bridge; drop the edit where nothing was
handleEdits(ctx) ==
    LET hits == SelectSeq(ctx.bridges,
                          LAMBDA b : ctx.mm[<<b.name, ctx.update.id>>] # NotFound)
    IN  Stop([ctx EXCEPT !.calls = @ \o
                [i \in 1..Len(hits) |->
                    [kind |-> "edit", bridge |-> hits[i].name,
                     channel |-> hits[i].dcChannel, src |-> ctx.update.id,
                     dst |-> ctx.mm[<<hits[i].name, ctx.update.id>>]]]])

\* Post to every remaining bridge; a delivery that succeeds is recorded
relayMessage(ctx) ==
    LET sent == {b \in Range(ctx.bridges) : b.name \notin ctx.failing}
    IN  Stop([ctx EXCEPT
                !.calls = @ \o Deliveries("send", ctx),
                !.mm = [k \in MapKeys |->
                          IF k[2] = ctx.update.id /\ \E b \in sent : b.name = k[1]
                          THEN PostedId(k[1], k[2]) ELSE ctx.mm[k]]])

\* The body of the stage called `name`; the enrichment stages only add their field
StageBody(name, ctx) ==
    CASE name \in {"chatinfo", "threadinfo"} -> chatinfo(ctx)
      [] name = "channelChatInfo" -> channelChatInfo(ctx)
      [] name = "addBridgesToContext" -> addBridgesToContext(ctx)
      [] name = "informThisIsPrivateBot" -> informThisIsPrivateBot(ctx)
      [] name = "removeD2TBridges" -> removeD2TBridges(ctx)
      [] name = "removeBridgesIgnoringJoinMessages" -> removeBridgesIgnoringJoinMessages(ctx)
      [] name = "removeBridgesIgnoringLeaveMessages" -> removeBridgesIgnoringLeaveMessages(ctx)
      [] name = "newChatMembers" -> newChatMembers(ctx)
      [] name = "leftChatMember" -> leftChatMember(ctx)
      [] name = "handleEdits" -> handleEdits(ctx)
      [] name = "relayMessage" -> relayMessage(ctx)
      [] OTHER -> ctx

----------------------------------------------------------------------------
(* The dispatcher *)

\* tgBot.use runs a stage for every update, tgBot.on and tgBot.command only for theirs
Matches(stage, update) ==
    \/ stage.on = AllUpdates
    \/ update.type \in stage.on

\* Telegraf runs the installed stages in installation order, until one does not call next
RECURSIVE Dispatch(_, _, _)
Dispatch(stgs, i, ctx) ==
    IF i > Len(stgs) \/ ~ctx.next THEN ctx
    ELSE IF Matches(stgs[i], ctx.update)
         THEN IF stgs[i].name = ctx.thrower
              THEN Throw(Enter(stgs[i].name, ctx))
              ELSE Dispatch(stgs, i + 1, StageBody(stgs[i].name, Enter(stgs[i].name, ctx)))
         ELSE Dispatch(stgs, i + 1, ctx)

\* What Discord may do with the posts of an update: which bridges' posts fail. Only new
\* messages and channel posts are posted.
Failures(update) ==
    IF update.type \in {"message", "channel_post"} THEN SUBSET {"b1", "b3"} ELSE {{}}

\* The handler given to tgBot.catch, lines 201-207: what it writes to the logger
tgBotCatchSilent(err) == [level |-> "debug", msg |-> err]

tgBotCatch(err) == [level |-> "error", msg |-> err]

\* The stages that run for an update when none of them fails
StagesRun(update) == Range(Dispatch(stages, 1, NewContext(update, {}, "none")).trace)

\* The installed stages process an update in which the stage `thrower` raises an error
\* ("none": no stage does) and Discord fails the posts of the bridges in `failing`. An
\* error goes to the handler given to tgBot.catch; without one it ends the retrieval loop.
Process(update, failing, thrower) ==
    \E out \in {Dispatch(stages, 1, NewContext(update, failing, thrower))} :
         /\ lastUpdate' = [handled |-> TRUE, update |-> update, trace |-> out.trace,
                           premature |-> out.premature, bridges |-> out.bridges,
                           table |-> out.table, announced |-> settingsTable,
                           calls |-> out.calls, threw |-> out.threw, thrower |-> thrower,
                           recorded |-> [b \in BridgeNames |->
                                           messageMap[<<b, update.id>>]]]
         /\ messageMap' = out.mm
         /\ logged' = IF out.threw /\ catchInstalled
                      THEN logged \cup {tgBotCatch("stage error")} ELSE logged
         /\ pollState' = IF out.threw /\ ~catchInstalled THEN "crashed" ELSE pollState
         /\ UNCHANGED <<skipOldMessages, getMe, sleepTimer, drain, fetchOffsets, batchHist,
                        chain, ready, tgContext, stages, catchInstalled, apiCalls,
                        cmdTask, rightsGroup, rightsChannel, unhandled,
                        settingsTable, emitThrew>>

\* Continuous retrieval hands an update to the installed pipeline and every stage that
\* runs for it does its work
HandleUpdate ==
    /\ ~Microtask
    /\ pollState \in {"running", "background"}
    /\ \E update \in Updates :
        \E failing \in Failures(update) : Process(update, failing, "none")

\* Continuous retrieval hands an update to the installed pipeline and one of the stages
\* that run for it raises an error
HandleFailingUpdate ==
    /\ ~Microtask
    /\ pollState \in {"running", "background"}
    /\ \E update \in Updates :
        \E thrower \in StagesRun(update) : Process(update, {}, thrower)

----------------------------------------------------------------------------
(* The state when setup() returns: both requests issued, nothing settled *)

Init ==
    /\ skipOldMessages \in BOOLEAN
    /\ getMe = "pending"
    /\ sleepTimer = IF BacklogStep(skipOldMessages) = "sleep" THEN "pending" ELSE "none"
    /\ drain = IF BacklogStep(skipOldMessages) = "clearOldMessages"
               THEN "fetching" ELSE "none"
    /\ fetchOffsets = IF BacklogStep(skipOldMessages) = "clearOldMessages"
                      THEN <<FirstOffset>> ELSE << >>
    /\ batchHist = << >>
    /\ chain = "waiting"
    /\ ready = "pending"
    /\ pollState = "none"
    /\ tgContext = NoContext
    /\ stages = << >>
    /\ catchInstalled = FALSE
    /\ apiCalls = << >>
    /\ cmdTask = "none"
    /\ rightsGroup = "none"
    /\ rightsChannel = "none"
    /\ logged = {}
    /\ unhandled = {}
    /\ settingsTable = "table1"
    /\ emitThrew = FALSE
    /\ messageMap = EmptyMessageMap
    /\ lastUpdate = NoUpdate

\* A state setup() reaches when the backlog is kept: pipeline installed, retrieval
\* running, the registration calls still in flight
InitPolling ==
    /\ skipOldMessages = FALSE
    /\ getMe = "fulfilled"
    /\ sleepTimer = "fired"
    /\ drain = "none"
    /\ fetchOffsets = << >>
    /\ batchHist = << >>
    /\ chain = "polling"
    /\ ready = "pending"
    /\ pollState = "running"
    /\ tgContext = InstalledContext
    /\ stages = Stages
    /\ catchInstalled = TRUE
    /\ apiCalls = RegistrationCalls
    /\ cmdTask = "pending"
    /\ rightsGroup = "pending"
    /\ rightsChannel = "pending"
    /\ logged = {[level |-> "info", msg |-> "Telegram: me"]}
    /\ unhandled = {}
    /\ settingsTable = "table1"
    /\ emitThrew = FALSE
    /\ messageMap = EmptyMessageMap
    /\ lastUpdate = NoUpdate

\* setup() and its detached tasks, with configuration reloads
NextStartup ==
    \/ GetMeResolves
    \/ GetMeRejects
    \/ SleepElapses
    \/ GetUpdatesResolves
    \/ GetUpdatesRejects
    \/ ReadyRejects
    \/ Install
    \/ StartPolling
    \/ PollingStops
    \/ SetMyCommandsResolves
    \/ SetMyCommandsRejects
    \/ VerifyTimerFires
    \/ GetMyCommandsResolves
    \/ GetMyCommandsRejects
    \/ RightsSettle
    \/ BridgeUpdate

\* The installed pipeline at work, with configuration reloads
NextPipeline ==
    \/ HandleUpdate
    \/ BridgeUpdate

\* The installed pipeline at work while stages may raise errors
NextFailure ==
    \/ HandleUpdate
    \/ HandleFailingUpdate
    \/ BridgeUpdate

Next == NextStartup \/ HandleUpdate \/ HandleFailingUpdate

\* The whole program
Spec == Init /\ [][Next]_vars

\* The program while the source platform delivers no update
StartupSpec == Init /\ [][NextStartup]_vars

\* The program while the source platform delivers no update, on an event loop that runs
\* every pending promise callback and with a source that answers every fetch
DrainSpec ==
    /\ StartupSpec
    /\ WF_vars(GetUpdatesResolves \/ GetUpdatesRejects)
    /\ WF_vars(ReadyRejects)
    /\ WF_vars(Install)
    /\ WF_vars(StartPolling)

\* The program once retrieval runs, while no detached task settles and no stage
\* raises an error
PipelineSpec == InitPolling /\ [][NextPipeline]_vars

\* The program once retrieval runs, with stages that may raise errors
FailureSpec == InitPolling /\ [][NextFailure]_vars
----------------------------------------------------------------------------
(* Properties of the startup sequence *)

LastBatch == batchHist[Len(batchHist)]

\* C1: continuous retrieval is started only after the backlog step has completed: with
\* skipOldMessages, after clearOldMessages has received an empty batch (and has no fetch
\* outstanding); without it, after the 1000 ms sleep has elapsed.
C1_PollingAfterBacklog ==
    pollState # "none" =>
        IF skipOldMessages
        THEN /\ drain = "done"
             /\ batchHist # << >>
             /\ LastBatch.len = 0
             /\ Len(fetchOffsets) = Len(batchHist)
        ELSE sleepTimer = "fired"

\* C1 witness: retrieval runs after a drain that discarded a batch
C1_Witness ==
    /\ pollState = "running"
    /\ skipOldMessages
    /\ Len(batchHist) >= 2
    /\ batchHist[1].len > 0

FullBatches == {i \in 1..Len(batchHist) : batchHist[i].len = limit}

\* C2: while every batch received is full or empty, each fetch after the first asks for
\* the previous batch's last update_id plus 1, no fetch follows an empty batch, and a
\* finished drain has issued (number of full batches + 1) fetches.
C2_DrainFetches ==
    (\A i \in 1..Len(batchHist) : batchHist[i].len \in {0, limit}) =>
        /\ \A i \in 2..Len(fetchOffsets) : fetchOffsets[i] = batchHist[i - 1].last + 1
        /\ \A i \in 1..Len(batchHist) :
              batchHist[i].len = 0 => i = Len(batchHist) /\ Len(fetchOffsets) = i
        /\ drain = "done" => Len(fetchOffsets) = Cardinality(FullBatches) + 1

\* C2 witness: a drain of two full batches has finished
C2_Witness ==
    /\ drain = "done"
    /\ Len(batchHist) = 3
    /\ batchHist[1].len = limit
    /\ batchHist[2].len = limit

\* C3: once getMe has failed, tgBot.ready is never fulfilled and nothing of the first
\* .then callback happens: no registration call, no context, no stage, no error
\* handler, no retrieval.
C3_IdentityFailureFatal ==
    getMe = "rejected" =>
        /\ ready # "fulfilled"
        /\ apiCalls = << >>
        /\ cmdTask = "none" /\ rightsGroup = "none" /\ rightsChannel = "none"
        /\ tgContext = NoContext
        /\ stages = << >>
        /\ ~catchInstalled
        /\ chain = "waiting"
        /\ pollState = "none"

\* C3 witness: the identity request failed after the backlog step had finished
C3_Witness ==
    /\ getMe = "rejected"
    /\ ready = "rejected"
    /\ BacklogPromise = "fulfilled"
\* C4 (as claimed): whenever the pipeline's context exists, the bridge table it refers
\* to is the one the settings collaborator announced last, also for a "bridgeUpdate"
\* delivered while startup was still waiting.
C4_ReloadReachesPipeline ==
    tgContext.set => tgContext.bridgeMap = settingsTable

FailedTasks ==
    {t \in {"cmdTask", "rightsGroup", "rightsChannel"} :
        \/ t = "cmdTask" /\ cmdTask \in {"failed", "thrown", "checkFailed"}
        \/ t = "rightsGroup" /\ rightsGroup = "failed"
        \/ t = "rightsChannel" /\ rightsChannel = "failed"}

\* C5: the detached tasks neither block nor fail startup: once the first .then callback
\* has run, the context is set, every stage and the error handler are installed and
\* the startPolling callback is runnable at once, whatever state the tasks are in;
\* retrieval is started by that callback; and tgBot.ready is rejected only when the
\* identity request or the backlog step failed, never by a task.
C5_TasksDetached ==
    /\ chain = "installed" => ENABLED StartPolling
    /\ chain \in {"installed", "polling"} =>
          /\ tgContext.set
          /\ stages = Stages
          /\ catchInstalled
    /\ chain = "polling" <=> pollState # "none"
    /\ AllState = "fulfilled" => chain \in {"waiting", "installed", "polling"}
    /\ ready = "rejected" => AllState = "rejected"

\* C5 witness: retrieval runs although two tasks failed and one never completed
C5_Witness ==
    /\ pollState = "running"
    /\ cmdTask = "failed"
    /\ rightsGroup = "failed"
    /\ rightsChannel = "pending"

\* C6 (as claimed): a failed best-effort task is reported to the logger, and no error
\* escapes as an unhandled rejection.
C6_FailuresOnlyLogged ==
    /\ unhandled = {}
    /\ FailedTasks # {} => \E entry \in logged : entry.level = "error"

\* C7 (as claimed): with the pipeline installed, tgBot.ready is fulfilled without waiting
\* for the retrieval call, whose promise stays pending until the process stops.
C7_ReadyBeforeRetrievalEnds ==
    pollState = "running" => ready = "fulfilled"
----------------------------------------------------------------------------
(* Properties of the installed pipeline *)

\* Whether stage `name` ran, for the update handled last, before position i of its trace
RanBefore(name, i) == \E j \in 1..(i - 1) : lastUpdate.trace[j] = name

DirectStages == {"chatinfo", "threadinfo", "channelChatInfo"}

\* The order the pipeline is to be installed in
FixedOrder ==
    << "chatinfo", "threadinfo", "channelChatInfo",
       "addTediCrossObj", "addMessageObj", "addMessageId", "addBridgesToContext",
       "informThisIsPrivateBot", "removeD2TBridges",
       "removeBridgesIgnoringJoinMessages", "removeBridgesIgnoringLeaveMessages",
       "newChatMembers", "leftChatMember",
       "addFromObj", "addReplyObj", "addForwardFrom", "addTextObj", "addFileObj",
       "addFileLink", "addPreparedObj", "handleEdits", "relayMessage" >>

Position(name) == CHOOSE i \in 1..Len(FixedOrder) : FixedOrder[i] = name

\* C8 (as claimed): for every update, no stage runs before addTediCrossObj, no stage
\* runs before a stage whose result it works on, and relayMessage never runs before
\* addPreparedObj.
C8_NoStageBeforeCollaborators ==
    lastUpdate.handled =>
        /\ \A i \in 1..Len(lastUpdate.trace) :
              lastUpdate.trace[i] # "addTediCrossObj" => RanBefore("addTediCrossObj", i)
        /\ lastUpdate.premature = {}
        /\ \A i \in 1..Len(lastUpdate.trace) :
              lastUpdate.trace[i] = "relayMessage" => RanBefore("addPreparedObj", i)

\* C8 (amended): the stages are installed in the fixed order; for every update the stages
\* that run, run in that order; chatinfo, threadinfo and channelChatInfo run before
\* addTediCrossObj and every other stage after it; no stage runs before a stage whose
\* result it works on; relayMessage never runs before addPreparedObj.
C8_PipelineOrder ==
    /\ [i \in 1..Len(stages) |-> stages[i].name] \in {<< >>, FixedOrder}
    /\ lastUpdate.handled =>
        /\ \A i, j \in 1..Len(lastUpdate.trace) :
              i < j => Position(lastUpdate.trace[i]) < Position(lastUpdate.trace[j])
        /\ \A i \in 1..Len(lastUpdate.trace) :
              IF lastUpdate.trace[i] \in DirectStages
              THEN ~RanBefore("addTediCrossObj", i)
              ELSE lastUpdate.trace[i] = "addTediCrossObj"
                   \/ RanBefore("addTediCrossObj", i)
        /\ lastUpdate.premature = {}
        /\ \A i \in 1..Len(lastUpdate.trace) :
              lastUpdate.trace[i] = "relayMessage" => RanBefore("addPreparedObj", i)

\* C8 witness: an update went through the whole pipeline to relayMessage
C8_Witness ==
    /\ lastUpdate.handled
    /\ lastUpdate.trace # << >>
    /\ lastUpdate.trace[1] = "channelChatInfo"
    /\ lastUpdate.trace[Len(lastUpdate.trace)] = "relayMessage"

DeliveryKinds == {"send", "edit", "notice"}

TerminalStages == {"relayMessage", "handleEdits", "newChatMembers", "leftChatMember"}

\* C9: no update from Telegram yields a delivery attempt on a bridge whose direction is
\* Discord-to-Telegram only, and relayMessage, handleEdits, newChatMembers and
\* leftChatMember run only after removeD2TBridges.
C9_NoDeliveryOnD2TBridge ==
    lastUpdate.handled =>
        /\ \A i \in 1..Len(lastUpdate.calls) :
              lastUpdate.calls[i].kind \in DeliveryKinds =>
                 \A b \in Range(BridgeMap(lastUpdate.table)) :
                    b.name = lastUpdate.calls[i].bridge => b.direction # "d2t"
        /\ \A i \in 1..Len(lastUpdate.trace) :
              lastUpdate.trace[i] \in TerminalStages => RanBefore("removeD2TBridges", i)

\* C9 witness: a join notice was delivered for a chat that also has a d2t-only bridge
C9_Witness ==
    /\ lastUpdate.handled
    /\ lastUpdate.update.type = "new_chat_members"
    /\ \E b \in Range(fromTelegramChatId(lastUpdate.table, lastUpdate.update.chat)) :
          b.direction = "d2t"
    /\ \E i \in 1..Len(lastUpdate.calls) : lastUpdate.calls[i].kind = "notice"

EditTypes == {"edited_message", "edited_channel_post"}

CallsOn(bridge) ==
    {i \in 1..Len(lastUpdate.calls) :
        lastUpdate.calls[i].kind \in DeliveryKinds /\ lastUpdate.calls[i].bridge = bridge}

\* C10: for an edit update, every resolved bridge with a recorded destination message
\* gets exactly one edit call, against that message; a bridge without one gets no
\* call; no call is a new post and relayMessage does not run.
C10_EditsOnlyEdit ==
    (lastUpdate.handled /\ lastUpdate.update.type \in EditTypes) =>
        /\ \A i \in 1..Len(lastUpdate.calls) : lastUpdate.calls[i].kind = "edit"
        /\ \A b \in BridgeNames :
              IF lastUpdate.recorded[b] # NotFound
                 /\ \E r \in Range(lastUpdate.bridges) : r.name = b
              THEN /\ Cardinality(CallsOn(b)) = 1
                   /\ \A i \in CallsOn(b) :
                         lastUpdate.calls[i].dst = lastUpdate.recorded[b]
              ELSE CallsOn(b) = {}
        /\ "relayMessage" \notin Range(lastUpdate.trace)

\* C10 witness: an edit of a relayed message produced an edit call
C10_Witness ==
    /\ lastUpdate.handled
    /\ lastUpdate.update.type = "edited_message"
    /\ \E i \in 1..Len(lastUpdate.calls) :
          /\ lastUpdate.calls[i].kind = "edit"
          /\ lastUpdate.calls[i].dst = PostedId("b1", lastUpdate.update.id)

\* C10 second case: an edit of a message that was never relayed produced no call
C10_MissReached ==
    /\ lastUpdate.handled
    /\ lastUpdate.update.type = "edited_channel_post"
    /\ lastUpdate.bridges # << >>
    /\ lastUpdate.calls = << >>

MembershipTypes == {"new_chat_members", "left_chat_member"}

\* The stage that drops the bridges ignoring a membership event, and the stage that
\* produces its notice
DropStage(type) ==
    IF type = "new_chat_members" THEN "removeBridgesIgnoringJoinMessages"
    ELSE "removeBridgesIgnoringLeaveMessages"

NoticeStage(type) == IF type = "new_chat_members" THEN "newChatMembers" ELSE "leftChatMember"

ContentStages == {EnrichmentStages[i].name : i \in 1..Len(EnrichmentStages)}

\* Claim C12: for a join or leave update, the stage dropping the bridges that ignore such
\* updates has run whenever the notice stage runs, the notice goes only to bridges that
\* do not ignore the update, and neither addFromObj .. addPreparedObj nor relayMessage
\* runs.
C12_MembershipPath ==
    (lastUpdate.handled /\ lastUpdate.update.type \in MembershipTypes) =>
        /\ \A i \in 1..Len(lastUpdate.trace) :
              lastUpdate.trace[i] = NoticeStage(lastUpdate.update.type) =>
                  RanBefore(DropStage(lastUpdate.update.type), i)
        /\ \A i \in 1..Len(lastUpdate.calls) :
              /\ lastUpdate.calls[i].kind = "notice"
              /\ \A b \in Range(BridgeMap(lastUpdate.table)) :
                    b.name = lastUpdate.calls[i].bridge =>
                        IF lastUpdate.update.type = "new_chat_members"
                        THEN ~b.ignoreJoin ELSE ~b.ignoreLeave
        /\ Range(lastUpdate.trace) \cap (ContentStages \cup {"relayMessage"}) = {}

\* A join update in a chat with a bridge that ignores joins: the notice stage ran after
\* that bridge was dropped
C12_Witness ==
    /\ lastUpdate.handled
    /\ lastUpdate.update.type = "new_chat_members"
    /\ lastUpdate.trace[Len(lastUpdate.trace)] = "newChatMembers"
    /\ \E b \in Range(BridgeMap(lastUpdate.table)) :
          b.ignoreJoin /\ b.tgChat = lastUpdate.update.chat
    /\ Len(lastUpdate.calls) > 0
\* The command handler of a command update
CommandHandler(type) == IF type = "cmd_chatinfo" THEN "chatinfo" ELSE "threadinfo"

\* The stages from addTediCrossObj to relayMessage
GeneralStages ==
    {Stages[i].name : i \in 1..Len(Stages)} \ {"chatinfo", "threadinfo", "channelChatInfo"}

\* Claim C13: for a chatinfo or threadinfo command its handler runs, the chat gets the
\* handler's answer (unless the handler raised an error) and nothing else, and no stage
\* from addTediCrossObj to relayMessage runs.
C13_CommandsBypass ==
    (lastUpdate.handled /\ lastUpdate.update.type \in {"cmd_chatinfo", "cmd_threadinfo"}) =>
        /\ CommandHandler(lastUpdate.update.type) \in Range(lastUpdate.trace)
        /\ Range(lastUpdate.trace) \cap GeneralStages = {}
        /\ ~lastUpdate.threw =>
              lastUpdate.calls = << [kind |-> "reply", chat |-> lastUpdate.update.chat] >>
        /\ messageMap = [k \in MapKeys |->
                           IF k[2] = lastUpdate.update.id
                           THEN lastUpdate.recorded[k[1]] ELSE messageMap[k]]

\* A threadinfo command in a bridged chat was answered by its handler
C13_Witness ==
    /\ lastUpdate.handled
    /\ lastUpdate.update.type = "cmd_threadinfo"
    /\ lastUpdate.update.chat = 111
    /\ lastUpdate.trace = << "threadinfo" >>
\* The registration calls issued so far, in order
Registrations == SelectSeq(apiCalls, LAMBDA c : c.call # "getMyCommands")

CallsOf(name) == SelectSeq(apiCalls, LAMBDA c : c.call = name)

\* Claim C14, as amended: no registration call is issued before both getMe and the
\* backlog step have succeeded; once both have, the first callback issues exactly one
\* setMyCommands call with chatinfo and threadinfo and exactly two
\* setMyDefaultAdministratorRights calls, forChannels false and forChannels true, and
\* none is ever added.
C14_RegistrationAfterStartupJoin ==
    /\ Registrations # << >> => getMe = "fulfilled" /\ BacklogPromise = "fulfilled"
    /\ chain = "waiting" => Registrations = << >>
    /\ (chain = "waiting" /\ AllState = "fulfilled") => ENABLED Install
    /\ chain # "waiting" =>
          /\ CallsOf("setMyCommands") =
                << [call |-> "setMyCommands", arg |-> <<"chatinfo", "threadinfo">>] >>
          /\ Len(CallsOf("setMyDefaultAdministratorRights")) = 2
          /\ {c.arg : c \in Range(CallsOf("setMyDefaultAdministratorRights"))} = BOOLEAN
          /\ Len(Registrations) = 3

\* The registration calls were issued after a drained backlog
C14_Witness ==
    /\ skipOldMessages
    /\ Len(batchHist) > 1
    /\ chain # "waiting"
    /\ Len(Registrations) = 3

\* Claim C14 as stated: once getMe has succeeded and startup has come to its end, the
\* three registration calls have been issued
C14_RegisteredOnceIdentityKnown ==
    (getMe = "fulfilled" /\ ready # "pending") => Len(Registrations) = 3
\* Claim C15: exactly one backlog alternative runs, chosen by skipOldMessages and started
\* together with getMe. With the option on, draining fetches are issued and no delay is
\* armed; with it off, the delay is armed, has elapsed before retrieval starts, and
\* setup issues no getUpdates fetch at all. Neither alternative waits for getMe.
C15_OneBacklogAlternative ==
    /\ skipOldMessages =>
          /\ sleepTimer = "none"
          /\ drain # "none"
          /\ Len(fetchOffsets) >= 1
    /\ ~skipOldMessages =>
          /\ sleepTimer \in {"pending", "fired"}
          /\ drain = "none"
          /\ fetchOffsets = << >> /\ batchHist = << >>
          /\ pollState # "none" => sleepTimer = "fired"
    /\ (~Microtask /\ drain = "fetching") => ENABLED GetUpdatesResolves
    /\ (~Microtask /\ sleepTimer = "pending") => ENABLED SleepElapses

\* The backlog is kept: retrieval started after the delay, without any fetch by setup
C15_Witness ==
    /\ ~skipOldMessages
    /\ sleepTimer = "fired"
    /\ pollState # "none"
    /\ fetchOffsets = << >>

\* The backlog is drained while getMe is still pending
C15_WitnessDraining ==
    /\ skipOldMessages
    /\ getMe = "pending"
    /\ Len(fetchOffsets) > 1
Collaborators ==
    {"me", "bridgeMap", "dcBot", "settings", "messageMap", "logger", "antiInfoSpamSet",
     "groupIdMap"}

\* Claim C16: whenever continuous retrieval has been started, tgBot.context.TediCross is
\* set and holds every collaborator, the stage list holds both command handlers and
\* every stage in the installation order, and the error catcher is registered.
C16_NoPartialPipeline ==
    pollState # "none" =>
        /\ tgContext.set
        /\ Collaborators \subseteq DOMAIN tgContext
        /\ tgContext.me = "me" /\ tgContext.bridgeMap \in Tables
        /\ Len(stages) = Len(FixedOrder)
        /\ stages[1] = Stage("chatinfo", {"cmd_chatinfo"})
        /\ stages[2] = Stage("threadinfo", {"cmd_threadinfo"})
        /\ \A n \in Range(FixedOrder) : \E i \in 1..Len(stages) : stages[i].name = n
        /\ stages[Len(stages)].name = "relayMessage"
        /\ catchInstalled

\* Retrieval has been started after a drained backlog
C16_Witness ==
    /\ pollState = "running"
    /\ skipOldMessages
    /\ stages # << >>
    /\ tgContext.set
\* Claim C17: once a getUpdates fetch of the draining has failed, tgBot.ready is rejected
\* (at the latest in the microtask that follows), the failed fetch stays the last one
\* issued, the context, the stages and the catcher are never installed, no registration
\* call is made and retrieval never starts, whatever getMe did.
C17_DrainFailureFatal ==
    drain = "failed" =>
        /\ ready = "rejected" \/ ENABLED ReadyRejects
        /\ Len(fetchOffsets) = Len(batchHist) + 1
        /\ ~ENABLED GetUpdatesResolves
        /\ chain = "waiting" /\ ~ENABLED Install
        /\ tgContext = NoContext /\ stages = << >> /\ ~catchInstalled
        /\ apiCalls = << >>
        /\ pollState = "none"

\* A fetch failed after an earlier batch, getMe succeeded, and startup has ended
C17_Witness ==
    /\ drain = "failed"
    /\ getMe = "fulfilled"
    /\ Len(batchHist) >= 1
    /\ ready = "rejected"
\* The draining so far follows clearOldMessages: the first fetch asks for offset -1 with
\* limit 100 and timeout 0, every fetch asks for more than the one before, a batch never
\* exceeds the limit, every non-empty batch, full or shorter, is followed by a fetch,
\* and only an empty batch ends the draining
DrainingSteps ==
    skipOldMessages =>
        /\ FetchRequest(fetchOffsets[1]) =
              [timeout |-> 0, limit |-> 100, offset |-> -1, allowedUpdates |-> << >>]
        /\ \A i \in 2..Len(fetchOffsets) : fetchOffsets[i] > fetchOffsets[i - 1]
        /\ \A i \in 1..Len(batchHist) :
              /\ batchHist[i].len <= 100
              /\ batchHist[i].len > 0 =>
                    /\ Len(fetchOffsets) >= i + 1
                    /\ batchHist[i].last >= fetchOffsets[i]
              /\ batchHist[i].len = 0 => i = Len(batchHist) /\ Len(fetchOffsets) = i
        /\ drain = "done" => batchHist # << >> /\ LastBatch.len = 0
        /\ drain = "fetching" => Len(fetchOffsets) = Len(batchHist) + 1

\* Claim C18: draining starts at offset -1 with limit 100 and timeout 0, a non-empty
\* batch of any size triggers a further fetch, and against a source that answers every
\* fetch with items at or above the requested offset and whose backlog is finite, the
\* draining comes to its end: with an empty last batch, unless a fetch failed.
C18_DrainingTerminates ==
    /\ []DrainingSteps
    /\ (drain = "fetching") ~> (drain \in {"done", "failed"})

\* A drain that received a batch shorter than the limit, fetched again and finished
C18_Witness ==
    /\ drain = "done"
    /\ \E i \in 1..Len(batchHist) : batchHist[i].len = 1
    /\ \E i \in 1..Len(batchHist) : batchHist[i].len = limit
    /\ LastBatch.len = 0
\* Claim C19: after getMe has failed, a draining under way is not abandoned: its pending
\* fetch is still answered and followed up (once the rejection of tgBot.ready has run),
\* it ends only on an empty batch or a failed fetch, while tgBot.ready never succeeds
\* and retrieval never starts.
C19_DrainingSurvivesFailure ==
    (getMe = "rejected" /\ skipOldMessages) =>
        /\ drain \in {"fetching", "done", "failed"}
        /\ (drain = "fetching" /\ ready = "rejected") => ENABLED GetUpdatesResolves
        /\ (drain = "fetching" /\ ready = "pending") => ENABLED ReadyRejects
        /\ drain = "done" => LastBatch.len = 0 /\ Len(fetchOffsets) = Len(batchHist)
        /\ ready # "fulfilled"
        /\ pollState = "none" /\ chain = "waiting"

\* getMe failed, tgBot.ready is rejected, and the draining went through two non-empty
\* batches to its end
C19_Witness ==
    /\ getMe = "rejected"
    /\ ready = "rejected"
    /\ drain = "done"
    /\ Len(batchHist) = 3
    /\ pollState = "none"
\* Claim C20: a step in which the settings announce a new table while the context is set
\* changes the context in its bridgeMap field only, which becomes the new table; me,
\* dcBot, settings, messageMap, logger, antiInfoSpamSet and groupIdMap, the stage list
\* and the catcher stay as they were.
C20_BridgeUpdateFrame ==
    [][(tgContext.set /\ settingsTable' # settingsTable) =>
          /\ tgContext' = [tgContext EXCEPT !.bridgeMap = settingsTable']
          /\ DOMAIN tgContext' = Collaborators \cup {"set"}
          /\ \A f \in Collaborators \ {"bridgeMap"} : tgContext'[f] = InstalledContext[f]
          /\ stages' = stages /\ stages = Stages
          /\ catchInstalled' = catchInstalled]_vars

\* A reload arrived after the context was set: the context refers to the second table
C20_Witness ==
    /\ tgContext.set
    /\ tgContext.bridgeMap = "table2"
    /\ settingsTable = "table2"
    /\ pollState = "running"
====
